---------------------------- MODULE Spec2Model ----------------------------
(***************************************************************************)
(* Connection-lifecycle and multiplexing engine of mcp-central-agent.      *)
(*                                                                         *)
(*   LocalClient      (src/src/local-client.ts)  one downstream connection *)
(*   AgentTunnel      (src/unnamed/part_000)     the control channel       *)
(*   McpCentralAgent  (src/unnamed/part_002)     the orchestrator          *)
(*                                                                         *)
(* JavaScript runs one task at a time: a handler runs without interruption *)
(* up to the first await that waits for I/O (opening a transport,          *)
(* listTools, callTool, close).  Every action below is one such run: an    *)
(* event handler with the synchronous part of every async function it      *)
(* calls, or the continuation of one await up to the next.                 *)
(***************************************************************************)
EXTENDS Integers, Sequences, FiniteSets, TLC

\* ------------------------------------------------------------------ bounds

MaxInst == 1          \* LocalClient objects alive at once
MaxCalls == 1         \* tool_call requests the agent is handling at once
MaxRetry == 1         \* cap on _reconnectAttempt when a timer fires, under the agent
MaxAttempt == 6       \* cap on _reconnectAttempt of a LocalClient on its own
MaxDisconnectCalls == 2  \* direct disconnect() calls on one LocalClient
MaxOrphanTimers == 1  \* timers whose handle was overwritten by a later one
MaxLeaked == 1        \* sockets whose handle was overwritten by a later connect()

\* ------------------------------------------------------- program constants

RECONNECT_DELAYS == <<1000, 2000, 5000, 10000, 30000>>
MAX_RECONNECT_DELAY == 60000

EndpointIds == {"a", "b"}

\* The combinations of (transport, command, url) the descriptors are drawn
\* from: a subprocess endpoint with and without its command, an http-stream
\* endpoint with its url.
Shapes ==
    { <<"stdio", "cmd", "null">>,
      <<"stdio", "null", "null">>,
      <<"streamable-http", "null", "url">> }

\* EndpointConfig: the fields the engine reads.
Descriptor(d, s, e) ==
    [id |-> d, transport |-> s[1], command |-> s[2], url |-> s[3], isEnabled |-> e]

\* The descriptors the control plane sends for the ids in ids: subprocess
\* endpoints that name their command.
Configs(ids) ==
    { Descriptor(d, s, e) : d \in ids,
                            s \in { t \in Shapes : t[1] = "stdio" /\ t[2] # "null" },
                            e \in BOOLEAN }

\* The ids the control plane configures where tool calls are followed too;
\* tool calls name any id.
Configured == {"a"}

\* The same endpoints after their command was edited on the control plane.
Revisions(ids) == { Descriptor(d, <<"stdio", "cmd2", "null">>, TRUE) : d \in ids }

EndpointConfig == Configs(EndpointIds) \cup Revisions(Configured)

\* What listTools can answer: response.tools absent, empty, or one tool.
ToolResponses ==
    { [has |-> FALSE, tools |-> <<>>],
      [has |-> TRUE, tools |-> <<>>],
      [has |-> TRUE, tools |-> <<"t1">>] }

\* What a downstream callTool can settle with: a result (value), a thrown
\* Error (message is err.message, text is String(err)), or a thrown value
\* that is no Error (text is String(err), it has no message).
DownstreamOutcomes ==
    { [ok |-> TRUE, isError |-> FALSE, value |-> "r1",
       message |-> "undefined", text |-> "undefined"],
      [ok |-> FALSE, isError |-> TRUE, value |-> "undefined",
       message |-> "boom", text |-> "Error: boom"],
      [ok |-> FALSE, isError |-> FALSE, value |-> "undefined",
       message |-> "undefined", text |-> "x"] }

Min(x, y) == IF x <= y THEN x ELSE y

VARIABLES
    lc,        \* every LocalClient constructed so far, in construction order
    clients,   \* McpCentralAgent._clients: sequence of [id, inst], insertion order
    socket,    \* AgentTunnel._socket: "null" or "live"
    calls,     \* the tool_call requests delivered and not yet forgotten
    stopPc,    \* McpCentralAgent.stop(): "idle", "await" (in client.disconnect()), "done"
    stopCur,   \* the [id, inst] entry stop() is awaiting, or NoEntry
    outbox,    \* toolResult messages handed to the tunnel by the latest step
    expected,  \* history: ids present and enabled per the events delivered
    removed,   \* history: ids whose endpoint_remove was handled and that no
               \*   later event has tracked again
    last,      \* history: the endpoint event, or the direct callTool, the
               \*   latest step handled
    leaked     \* sockets AgentTunnel.connect() created that _socket no longer
               \*   holds and nothing disconnected: connected, handlers registered

vars == <<lc, clients, socket, calls, stopPc, stopCur, outbox, expected, removed,
          last, leaked>>

NoEntry == [id |-> "none", inst |-> 0]

\* No endpoint event was handled by the latest step.
NoEvent == [ev |-> "none", ids |-> {}, revised |-> {}, sent |-> <<>>]

\* History: the event this step handles; ids are the ids it names that were
\* tracked when it arrived, revised those of them whose descriptor it
\* changes, sent the statusUpdate messages the handler itself hands to the
\* tunnel.
Handled(ev, ids, revised, sent) ==
    last' = [ev |-> ev, ids |-> ids, revised |-> revised, sent |-> sent]

Inst == 1..Len(lc)

\* ------------------------------------------------------------ LocalClient

\* new LocalClient(config, callbacks)
NewClient(cfg) ==
    [ cfg |-> cfg,
      client |-> "null",           \* _client: "null" or "set"
      status |-> "disconnected",   \* _status
      tools |-> <<>>,              \* _tools
      destroyed |-> FALSE,         \* _destroyed
      connecting |-> FALSE,        \* _connecting
      reconnectAttempt |-> 0,      \* _reconnectAttempt
      reconnectTimer |-> FALSE,    \* _reconnectTimer holds a pending timer
      orphanTimers |-> 0,          \* pending timers _reconnectTimer no longer holds
      pc |-> "idle",               \* where connect() is suspended
      closing |-> 0,               \* disconnect() calls suspended in _client.close()
      obs |-> FALSE,               \* _onError and _onClose are both armed on the
                                   \*   transport watched last
      staleObs |-> FALSE,          \* an observer is armed on a transport that has
                                   \*   reported already or was superseded
      \* history, kept for a traced client
      traced |-> FALSE,
      lastDelay |-> 0,             \* delay of the latest _scheduleReconnect since
                                   \*   it last reached connected (0: none)
      discCb |-> 0,                \* onStatusChanged("disconnected") invocations
      discSent |-> 0,              \* statusUpdate(id, "disconnected") emitted
      toggledAt |-> "none",        \* _status when endpoint_toggle dropped it
      via |-> "none",              \* the transport `transport` of the latest
                                   \*   connect() that opened one: stdio, post, sse
      lastError |-> "none",        \* error passed to the latest onStatusChanged
      toolsCb |-> 0,               \* onToolsChanged invocations of the latest
                                   \*   connect() and of what followed it
      announced |-> <<"never">>,   \* the list of the latest onToolsChanged
      partner |-> FALSE,           \* the observer that reacted last has its
                                   \*   partner on the same transport still armed
      untended |-> FALSE ]         \* _client is on a transport whose discovery
                                   \*   failed while it stayed open

\* The client whose history is kept.
Traced(r) == [r EXCEPT !.traced = TRUE]

\* callbacks.onStatusChanged(id, status); wired by McpCentralAgent._addEndpoint
\* to AgentTunnel.sendStatusUpdate, which emits on a live socket only.
OnStatusChanged(r, s, sock) ==
    IF r.traced /\ s = "disconnected"
    THEN [r EXCEPT !.discCb = @ + 1,
                   !.discSent = IF sock = "live" THEN @ + 1 ELSE @]
    ELSE r

\* LocalClient._setStatus
SetStatus(r, s, sock) == OnStatusChanged([r EXCEPT !.status = s], s, sock)

\* The error argument of _setStatus(status, error), as onStatusChanged got it.
WithError(r, message) ==
    IF r.traced THEN [r EXCEPT !.lastError = message] ELSE r

\* callbacks.onToolsChanged(tools); wired by McpCentralAgent._addEndpoint to
\* AgentTunnel.announceTools.
OnToolsChanged(r, tools) ==
    IF r.traced THEN [r EXCEPT !.toolsCb = @ + 1, !.announced = tools] ELSE r

\* History of which transport a connect() opened.
Via(r, kind) == IF r.traced THEN [r EXCEPT !.via = kind] ELSE r

\* RECONNECT_DELAYS[Math.min(this._reconnectAttempt, RECONNECT_DELAYS.length - 1)]
\*   ?? MAX_RECONNECT_DELAY
DelayFor_Unclamped(attempt) ==
    IF attempt + 1 \in DOMAIN RECONNECT_DELAYS
    THEN RECONNECT_DELAYS[attempt + 1]
    ELSE MAX_RECONNECT_DELAY

DelayFor(attempt) ==
    LET k == Min(attempt, Len(RECONNECT_DELAYS) - 1) + 1
    IN  IF k \in DOMAIN RECONNECT_DELAYS
        THEN RECONNECT_DELAYS[k]
        ELSE MAX_RECONNECT_DELAY

\* LocalClient._scheduleReconnect.  setTimeout does not clear the timer the
\* handle held before: it stays pending, no longer reachable by clearTimeout.
ScheduleReconnect(r) ==
    IF r.destroyed THEN r
    ELSE [r EXCEPT !.lastDelay = IF r.traced THEN DelayFor(r.reconnectAttempt) ELSE @,
                   !.reconnectAttempt = @ + 1,
                   !.orphanTimers = IF r.reconnectTimer THEN @ + 1 ELSE @,
                   !.reconnectTimer = TRUE]

\* The catch block without its _scheduleReconnect().
ConnectCatch_NoSchedule(r, sock) ==
    [SetStatus(r, "error", sock) EXCEPT !.connecting = FALSE, !.pc = "idle"]

\* The catch and finally blocks of LocalClient.connect.
ConnectCatch(r, sock) ==
    LET r1 == SetStatus(r, "error", sock)
        r2 == IF ~r1.destroyed THEN ScheduleReconnect(r1) ELSE r1
    IN  [r2 EXCEPT !.connecting = FALSE, !.pc = "idle"]

\* LocalClient._createTransport: "ok", or "throw" when the descriptor lacks
\* what its transport needs or names an unknown transport.
CreateTransport(cfg) ==
    CASE cfg.transport = "stdio" ->
            IF cfg.command = "null" THEN "throw" ELSE "ok"
      [] cfg.transport = "streamable-http" ->
            IF cfg.url = "null" THEN "throw" ELSE "ok"
      [] cfg.transport = "sse" ->
            IF cfg.url = "null" THEN "throw" ELSE "ok"
      [] OTHER -> "throw"

\* LocalClient.connect up to its first await.
ConnectGuard(r) == r.destroyed \/ r.connecting

ConnectStart(r, sock) ==
    IF ConnectGuard(r) THEN r
    ELSE LET r0 == IF r.traced THEN [r EXCEPT !.toolsCb = 0] ELSE r
             r1 == SetStatus([r0 EXCEPT !.connecting = TRUE], "connecting", sock)
         IN  IF r1.cfg.transport = "streamable-http"
             THEN IF r1.cfg.url = "null"
                  THEN WithError(ConnectCatch(r1, sock), "has no URL")
                  ELSE [r1 EXCEPT !.pc = "post"]
             ELSE IF CreateTransport(r1.cfg) = "throw"
                  THEN WithError(ConnectCatch(r1, sock), "cannot create transport")
                  ELSE [r1 EXCEPT !.pc = "transport"]

\* connect() after `await client.connect(transport)` / `_connectHttp` returned.
ConnectEstablished(r) ==
    [r EXCEPT !.client = "set", !.reconnectAttempt = 0, !.pc = "list",
              !.untended = FALSE]

\* response.tools ?? []
ToolsOf(resp) == IF resp.has THEN resp.tools ELSE <<>>

\* connect() after `await client.listTools()` resolved, to the end of the
\* try block and the finally block.
ConnectDiscovered(r, resp, sock) ==
    LET r0 == SetStatus([r EXCEPT !.tools = ToolsOf(resp)], "connected", sock)
        r1 == OnToolsChanged(r0, r0.tools)
    IN  [r1 EXCEPT !.obs = TRUE,
                   !.staleObs = @ \/ r.obs,
                   !.lastDelay = 0,
                   !.connecting = FALSE, !.pc = "idle"]

\* The _onError / _onClose one-shot observers: the reaction of either.
Reacts(r) == ~r.destroyed /\ r.status = "connected"

ObserverFires(r, sock) ==
    IF Reacts(r)
    THEN ScheduleReconnect(
            WithError(SetStatus([r EXCEPT !.tools = <<>>], "error", sock),
                      "transport error or close"))
    ELSE r

\* LocalClient.callTool: `if (!this._client) throw`, else the call goes to
\* this._client.
CallToolForwards(r) == r.client # "null"

\* disconnect(): clearTimeout(this._reconnectTimer); this._reconnectTimer = null
ClearTimer(r) == [r EXCEPT !.reconnectTimer = FALSE]

\* LocalClient.disconnect up to its first await (or to its end when there
\* is no _client to close).
DisconnectStart(r, sock) ==
    LET r0 == ClearTimer([r EXCEPT !.destroyed = TRUE])
        \* an observer still armed reports to a destroyed client from now
        \* on, whichever transport it watches
        r1 == [r0 EXCEPT !.staleObs = @ \/ r.obs, !.obs = FALSE]
    IN  IF r1.client # "null"
        THEN [r1 EXCEPT !.closing = @ + 1]
        ELSE SetStatus(r1, "disconnected", sock)

\* disconnect() after `await this._client.close()`.
DisconnectFinish(r, sock) ==
    SetStatus([r EXCEPT !.closing = @ - 1, !.client = "null", !.untended = FALSE],
              "disconnected", sock)

\* ------------------------------------------------- LocalClient: the steps

\* `await client.connect(transport)` resolves (stdio, sse).
TransportOpened(i) ==
    /\ lc[i].pc = "transport"
    /\ lc' = [lc EXCEPT ![i] = Via(ConnectEstablished(@), lc[i].cfg.transport)]

\* `await client.connect(transport)` rejects.
TransportFailed(i) ==
    /\ lc[i].pc = "transport"
    /\ lc' = [lc EXCEPT ![i] = WithError(ConnectCatch(@, socket), "open failed")]

\* _connectHttp attempt 1 resolves: connected via Streamable HTTP (POST).
PostOpened(i) ==
    /\ lc[i].pc = "post"
    /\ lc' = [lc EXCEPT ![i] = Via(ConnectEstablished(@), "streamable-http")]

\* _connectHttp attempt 1 rejects: streamableTransport.close(), then
\* `await client.close()`.
PostFailed_NoFallback(i) ==
    /\ lc[i].pc = "post"
    /\ lc' = [lc EXCEPT ![i] = WithError(ConnectCatch(@, socket), "POST failed")]

PostFailed(i) ==
    /\ lc[i].pc = "post"
    /\ lc' = [lc EXCEPT ![i].pc = "postClose"]

\* `await client.close()` of attempt 1 settles: attempt 2 starts.
PostClosed(i) ==
    /\ lc[i].pc = "postClose"
    /\ lc' = [lc EXCEPT ![i].pc = "sse"]

\* _connectHttp attempt 2 resolves: connected via SSE (GET).
SseOpened(i) ==
    /\ lc[i].pc = "sse"
    /\ lc' = [lc EXCEPT ![i] = Via(ConnectEstablished(@), "sse")]

\* _connectHttp attempt 2 rejects: sseTransport.close(), then
\* `await client.close()`.
SseFailed(i) ==
    /\ lc[i].pc = "sse"
    /\ lc' = [lc EXCEPT ![i].pc = "sseClose"]

\* `await client.close()` of attempt 2 settles: `throw err`.
SseClosed(i) ==
    /\ lc[i].pc = "sseClose"
    /\ lc' = [lc EXCEPT ![i] = WithError(ConnectCatch(@, socket), "GET failed")]

\* `await client.listTools()` resolves.
ToolsListed(i) ==
    /\ lc[i].pc = "list"
    /\ \E resp \in ToolResponses :
          lc' = [lc EXCEPT ![i] = ConnectDiscovered(@, resp, socket)]

\* What the catch block leaves of a transport whose discovery failed: it
\* closes nothing, so the transport stays open unless it died by itself.
Untended(r, alive) == IF r.traced THEN [r EXCEPT !.untended = alive] ELSE r

\* `await client.listTools()` rejects, the transport still open or not.
ListFailed(i) ==
    /\ lc[i].pc = "list"
    /\ \E alive \in BOOLEAN :
          lc' = [lc EXCEPT ![i] =
                    Untended(WithError(ConnectCatch(@, socket), "listTools failed"),
                             alive)]

\* The transport watched last reports for the first time, an error or its
\* close: the observer of that unhooks itself and reacts, the other one
\* stays armed.
TransportEvent(i) ==
    /\ lc[i].obs
    /\ lc' = [lc EXCEPT ![i] =
                ObserverFires([@ EXCEPT !.obs = FALSE, !.staleObs = TRUE,
                                        !.partner = IF lc[i].traced /\ Reacts(lc[i])
                                                    THEN TRUE ELSE @],
                              socket)]

\* The same fault makes the partner of the observer that reacted last fire
\* too (the close after the error, or the error after the close).
PartnerFires(i) ==
    /\ lc[i].partner
    /\ lc' = [lc EXCEPT ![i] = ObserverFires([@ EXCEPT !.partner = FALSE], socket)]

\* A transport that has reported before, or one of an earlier attempt,
\* reports an error or closes.  The observers of such transports are not
\* counted: another report stays possible.
StaleTransportEvent(i) ==
    /\ lc[i].staleObs
    /\ lc' = [lc EXCEPT ![i] = ObserverFires(@, socket)]

\* The timer _reconnectTimer holds fires.
ReconnectTimerFires(i, cap) ==
    /\ lc[i].reconnectTimer
    /\ lc[i].reconnectAttempt <= cap
    /\ lc' = [lc EXCEPT ![i] = ConnectStart([@ EXCEPT !.reconnectTimer = FALSE], socket)]

\* A timer whose handle was overwritten fires: it too sets
\* _reconnectTimer = null, which leaves the timer the handle held pending
\* and unreachable.
OrphanTimerFires(i) ==
    /\ lc[i].orphanTimers > 0
    /\ lc[i].reconnectAttempt <= MaxAttempt
    /\ lc' = [lc EXCEPT ![i] =
                ConnectStart([@ EXCEPT !.orphanTimers =
                                          IF lc[i].reconnectTimer THEN @ ELSE @ - 1,
                                       !.reconnectTimer = FALSE], socket)]

\* ------------------------------------------------ McpCentralAgent._clients

\* Map.has / Map.get / Map.delete / Map.set on the insertion-ordered map.
Has(cl, id) == \E k \in 1..Len(cl) : cl[k].id = id

Get(cl, id) == cl[CHOOSE k \in 1..Len(cl) : cl[k].id = id].inst

Delete(cl, id) == SelectSeq(cl, LAMBDA e : e.id # id)

Set(cl, id, i) ==
    IF Has(cl, id)
    THEN [k \in 1..Len(cl) |-> IF cl[k].id = id THEN [id |-> id, inst |-> i] ELSE cl[k]]
    ELSE Append(cl, [id |-> id, inst |-> i])

TrackedIds == { clients[k].id : k \in 1..Len(clients) }

\* ----------------------------------------- McpCentralAgent: the handlers
\* Each handler maps the pair w = [clients, lc] to the pair it leaves;
\* sock is AgentTunnel._socket while it runs.

\* _removeEndpoint
RemoveEndpoint_NoDelete(w, id, sock) ==
    IF Has(w.clients, id)
    THEN LET i == Get(w.clients, id)
         IN  [clients |-> w.clients,
              lc |-> [w.lc EXCEPT ![i] = DisconnectStart(@, sock)]]
    ELSE w

RemoveEndpoint(w, id, sock) ==
    IF Has(w.clients, id)
    THEN LET i == Get(w.clients, id)
         IN  [clients |-> Delete(w.clients, id),
              lc |-> [w.lc EXCEPT ![i] = DisconnectStart(@, sock)]]
    ELSE w

\* _addEndpoint
AddEndpoint(w, endpoint, sock) ==
    IF ~endpoint.isEnabled THEN w
    ELSE LET w1 == IF Has(w.clients, endpoint.id)
                   THEN LET i == Get(w.clients, endpoint.id)
                        IN  [clients |-> Delete(w.clients, endpoint.id),
                             lc |-> [w.lc EXCEPT ![i] = DisconnectStart(@, sock)]]
                   ELSE w
             n == Len(w1.lc) + 1
         IN  [clients |-> Set(w1.clients, endpoint.id, n),
              lc |-> Append(w1.lc, ConnectStart(NewClient(endpoint), sock))]

\* _syncEndpoints, first loop: for (const id of this._clients.keys())
RECURSIVE SyncRemove(_, _, _, _)
SyncRemove(w, keys, incoming, sock) ==
    IF keys = <<>> THEN w
    ELSE SyncRemove(IF Head(keys) \notin incoming
                    THEN RemoveEndpoint(w, Head(keys), sock)
                    ELSE w,
                    Tail(keys), incoming, sock)

\* _syncEndpoints, second loop: for (const ep of endpoints)
RECURSIVE SyncAdd_Revise(_, _, _)
SyncAdd_Revise(w, endpoints, sock) ==
    IF endpoints = <<>> THEN w
    ELSE LET ep == Head(endpoints)
             changed == IF Has(w.clients, ep.id)
                        THEN w.lc[Get(w.clients, ep.id)].cfg # ep
                        ELSE TRUE
         IN  SyncAdd_Revise(IF ep.isEnabled /\ changed
                            THEN AddEndpoint(w, ep, sock)
                            ELSE w,
                            Tail(endpoints), sock)

RECURSIVE SyncAdd(_, _, _)
SyncAdd(w, endpoints, sock) ==
    IF endpoints = <<>> THEN w
    ELSE LET ep == Head(endpoints)
         IN  SyncAdd(IF ep.isEnabled /\ ~Has(w.clients, ep.id)
                     THEN AddEndpoint(w, ep, sock)
                     ELSE w,
                     Tail(endpoints), sock)

\* _syncEndpoints
SyncEndpoints(w, endpoints, sock) ==
    LET incoming == { endpoints[k].id : k \in 1..Len(endpoints) }
        keys == [k \in 1..Len(w.clients) |-> w.clients[k].id]
    IN  SyncAdd(SyncRemove(w, keys, incoming, sock), endpoints, sock)

\* _toggleEndpoint: for isEnabled = false on a tracked id it disconnects,
\* deletes and itself sends statusUpdate(id, "disconnected").
ToggleReport(r, was, sock) ==
    IF r.traced
    THEN [r EXCEPT !.toggledAt = was,
                   !.discSent = IF sock = "live" THEN @ + 1 ELSE @]
    ELSE r

ToggleEndpoint(w, id, isEnabled, sock) ==
    IF ~isEnabled /\ Has(w.clients, id)
    THEN LET i == Get(w.clients, id)
         IN  [clients |-> Delete(w.clients, id),
              lc |-> [w.lc EXCEPT ![i] =
                         ToggleReport(DisconnectStart(@, sock), w.lc[i].status, sock)]]
    ELSE w

\* _updateEndpoint
UpdateEndpoint_Resync(w, endpoint, sock) == SyncEndpoints(w, <<endpoint>>, sock)

UpdateEndpoint(w, endpoint, sock) ==
    LET w1 == RemoveEndpoint(w, endpoint.id, sock)
    IN  IF endpoint.isEnabled THEN AddEndpoint(w1, endpoint, sock) ELSE w1

\* _refreshEndpoint
RefreshEndpoint_Dropped(w, id, sock) == RemoveEndpoint(w, id, sock)

RefreshEndpoint(w, id, sock) ==
    IF Has(w.clients, id)
    THEN LET i == Get(w.clients, id)
         IN  AddEndpoint([clients |-> Delete(w.clients, id),
                          lc |-> [w.lc EXCEPT ![i] = DisconnectStart(@, sock)]],
                         w.lc[i].cfg, sock)
    ELSE w

World == [clients |-> clients, lc |-> lc]

\* A LocalClient the agent no longer holds (not in _clients, not the one
\* stop() awaits) that is destroyed and has nothing pending: no connect()
\* or disconnect() suspended in it and no timer.  Nothing can call it and
\* nothing it does can change: the runtime reclaims it.
GarbageIn(w, cur, i) ==
    /\ w.lc[i].destroyed
    /\ w.lc[i].pc = "idle"
    /\ w.lc[i].closing = 0
    /\ ~w.lc[i].reconnectTimer
    /\ w.lc[i].orphanTimers = 0
    /\ \A k \in 1..Len(w.clients) : w.clients[k].inst # i
    /\ cur.inst # i

\* The handler's result becomes the state, within the bound on the objects
\* it leaves alive.
Becomes(w) ==
    /\ Cardinality({ i \in 1..Len(w.lc) : ~GarbageIn(w, stopCur, i) }) <= MaxInst
    /\ clients' = w.clients
    /\ lc' = w.lc

\* The same while stop() is suspended: the bound is on the objects alive
\* beside the one stop() is closing.
BecomesBeside(w) ==
    /\ stopPc = "await"
    /\ Cardinality({ i \in 1..Len(w.lc) :
                        ~GarbageIn(w, stopCur, i) /\ i # stopCur.inst }) <= MaxInst
    /\ clients' = w.clients
    /\ lc' = w.lc

\* The endpoint lists an `agent:endpoints` event can carry: at most one
\* descriptor per id, in either order.
Lists(cfgs) ==
    { <<>> } \cup { <<e>> : e \in cfgs }
      \cup { p \in cfgs \X cfgs : p[1].id # p[2].id }

EndpointLists == Lists(EndpointConfig)

EnabledIds(endpoints) ==
    { endpoints[k].id : k \in { j \in 1..Len(endpoints) : endpoints[j].isEnabled } }

\* An event of the control plane reaches the handlers AgentTunnel.connect()
\* registered, on any socket that is connected.
Delivers == socket = "live" \/ leaked > 0

\* --------------------------------------------------- tool_call routing

\* _handleToolCall: the error it answers with before calling downstream,
\* <<>> when it answers with none.
ToolCallError_WrongStatus(tracked, st, ep) ==
    IF ~tracked THEN <<"error", "No local client for endpoint", ep>>
    ELSE IF st # "connected"
         THEN <<"error", "Endpoint is not connected (status)", ep, "disconnected">>
         ELSE <<>>

ToolCallError(tracked, st, ep) ==
    IF ~tracked THEN <<"error", "No local client for endpoint", ep>>
    ELSE IF st # "connected"
         THEN <<"error", "Endpoint is not connected (status)", ep, st>>
         ELSE <<>>

\* _handleToolCall: whether control reaches `await client.callTool(...)`,
\* past the two early returns.
ReachesCallTool_NoReturn(tracked, st) == tracked

ReachesCallTool(tracked, st) == tracked /\ st = "connected"

\* err instanceof Error ? err.message : String(err)
MessageOf(o) == IF o.isError THEN o.message ELSE o.text

\* The outcome _handleToolCall sends for a settled downstream call.
OutcomeOf(o) ==
    IF o.ok THEN <<"result", o.value>> ELSE <<"error", MessageOf(o)>>

\* AgentTunnel.sendToolResult / sendToolError with { callId, result } or
\* { callId, error }: this._socket?.emit("toolResult", ...)
ToolResult(callId, outcome, sock) ==
    [callId |-> callId, outcome |-> outcome, emitted |-> sock = "live"]

\* The callId of a request: the lowest not in use.
FreshCallId == CHOOSE k \in 1..MaxCalls :
                  /\ \A c \in calls : c.callId # k
                  /\ \A j \in 1..(k - 1) : \E c \in calls : c.callId = j

\* `agent:tool_call` is delivered: _handleToolCall up to its first await.
OnToolCall ==
    /\ Delivers
    /\ Cardinality(calls) < MaxCalls
    /\ \E ep \in EndpointIds :
         LET callId == FreshCallId
             tracked == Has(clients, ep)
             i == IF tracked THEN Get(clients, ep) ELSE 0
             st == IF tracked THEN lc[i].status ELSE "none"
             err == ToolCallError(tracked, st, ep)
             sent == IF err = <<>> THEN <<>> ELSE <<ToolResult(callId, err, socket)>>
             reaches == ReachesCallTool(tracked, st)
             \* LocalClient.callTool throws when there is no _client
             throws == reaches /\ lc[i].client = "null"
             thrown == <<"error", "LocalClient for endpoint is not connected", ep>>
             out == IF throws THEN Append(sent, ToolResult(callId, thrown, socket))
                    ELSE sent
         IN  /\ calls' = calls \cup
                   { [ callId |-> callId,
                       endpointId |-> ep,
                       inflight |-> reaches /\ ~throws,  \* awaiting client.callTool
                       outcomes |-> Len(out) ] }         \* history: outcomes sent
             /\ outbox' = out
    /\ last' = NoEvent
    /\ UNCHANGED <<lc, clients, socket, stopPc, stopCur, expected, removed, leaked>>

\* `await client.callTool(toolName, args)` settles.
CallSettles ==
    /\ \E c \in calls :
         /\ c.inflight
         /\ \E o \in DownstreamOutcomes :
              /\ calls' = (calls \ {c}) \cup
                             { [c EXCEPT !.inflight = FALSE, !.outcomes = @ + 1] }
              /\ outbox' = <<ToolResult(c.callId, OutcomeOf(o), socket)>>
    /\ last' = NoEvent
    /\ UNCHANGED <<lc, clients, socket, stopPc, stopCur, expected, removed, leaked>>

\* _handleToolCall has returned for the request: nothing refers to it.
Answered(c) == ~c.inflight

Forget(c) ==
    /\ Answered(c)
    /\ \A d \in calls : Answered(d) => c.callId <= d.callId
    /\ calls' = calls \ {c}
    /\ outbox' = <<>>
    /\ last' = NoEvent
    /\ UNCHANGED <<lc, clients, socket, stopPc, stopCur, expected, removed, leaked>>

\* ------------------------------------------------------------ the events

\* AgentTunnel.connect, called by McpCentralAgent.start
Start ==
    /\ socket = "null"
    /\ stopPc = "idle"
    /\ socket' = "live"
    /\ outbox' = <<>>
    /\ UNCHANGED <<lc, clients, calls, stopPc, stopCur, expected, removed, last, leaked>>

\* AgentTunnel.connect: `this._socket = io(...)` and the handlers registered
\* on it, whatever _socket held.
TunnelConnect ==
    /\ socket = "live" => leaked < MaxLeaked
    /\ socket' = "live"
    /\ leaked' = IF socket = "live" THEN leaked + 1 ELSE leaked
    /\ outbox' = <<>>
    /\ UNCHANGED <<lc, clients, calls, stopPc, stopCur, expected, removed, last>>

\* AgentTunnel.disconnect: `this._socket?.disconnect(); this._socket = null`
TunnelDisconnect ==
    /\ socket' = "null"
    /\ outbox' = <<>>
    /\ UNCHANGED <<lc, clients, calls, stopPc, stopCur, expected, removed, last, leaked>>

\* `agent:endpoints`
OnEndpoints(endpoints) ==
    /\ Delivers
    /\ Becomes(SyncEndpoints(World, endpoints, socket))
    /\ outbox' = <<>>
    /\ UNCHANGED <<socket, calls, stopPc, stopCur>>

\* `agent:endpoint_add`
OnEndpointAdd(endpoint) ==
    /\ Delivers
    /\ Becomes(AddEndpoint(World, endpoint, socket))
    /\ outbox' = <<>>
    /\ UNCHANGED <<socket, calls, stopPc, stopCur>>

\* `agent:endpoint_remove`
OnEndpointRemove(id) ==
    /\ Delivers
    /\ Becomes(RemoveEndpoint(World, id, socket))
    /\ outbox' = <<>>
    /\ UNCHANGED <<socket, calls, stopPc, stopCur>>

\* `agent:endpoint_toggle`
OnEndpointToggle(id, isEnabled) ==
    /\ Delivers
    /\ Becomes(ToggleEndpoint(World, id, isEnabled, socket))
    /\ outbox' = <<>>
    /\ UNCHANGED <<socket, calls, stopPc, stopCur>>

\* `agent:endpoint_update`
OnEndpointUpdate(endpoint) ==
    /\ Delivers
    /\ Becomes(UpdateEndpoint(World, endpoint, socket))
    /\ outbox' = <<>>
    /\ UNCHANGED <<socket, calls, stopPc, stopCur>>

\* `agent:endpoint_refresh`
OnEndpointRefresh(id) ==
    /\ Delivers
    /\ Becomes(RefreshEndpoint(World, id, socket))
    /\ outbox' = <<>>
    /\ UNCHANGED <<socket, calls, stopPc, stopCur>>

\* ------------------------------------------------- McpCentralAgent.stop

\* The loop of stop() from the entry at the head of the map: it runs on
\* while disconnect() has no _client to close, suspends in the first
\* disconnect() that has one, and ends with this._tunnel.disconnect().
RECURSIVE StopLoop(_, _, _)
StopLoop(cl, l, sock) ==
    IF cl = <<>>
    THEN [clients |-> cl, lc |-> l, cur |-> NoEntry, pc |-> "done", socket |-> "null"]
    ELSE LET e == Head(cl)
             r == DisconnectStart(l[e.inst], sock)
         IN  IF r.closing > l[e.inst].closing
             THEN [clients |-> cl, lc |-> [l EXCEPT ![e.inst] = r],
                   cur |-> e, pc |-> "await", socket |-> sock]
             ELSE StopLoop(Delete(cl, e.id), [l EXCEPT ![e.inst] = r], sock)

StopBecomes(res) ==
    /\ clients' = res.clients
    /\ lc' = res.lc
    /\ stopCur' = res.cur
    /\ stopPc' = res.pc
    /\ socket' = res.socket

\* stop() is called.
Stop ==
    /\ stopPc = "idle"
    /\ socket = "live"
    /\ StopBecomes(StopLoop(clients, lc, socket))
    /\ outbox' = <<>>
    /\ UNCHANGED <<calls, expected, removed, last, leaked>>

\* The disconnect() stop() awaits settles: stop() deletes the id it was
\* visiting and goes on with the entries left in the map.
StopResumes ==
    /\ stopPc = "await"
    /\ LET i == stopCur.inst
           l == [lc EXCEPT ![i] = DisconnectFinish(@, socket)]
       IN  StopBecomes(StopLoop(Delete(clients, stopCur.id), l, socket))
    /\ outbox' = <<>>
    /\ UNCHANGED <<calls, expected, removed, last, leaked>>

\* A disconnect() nobody awaits settles (the handlers call
\* client.disconnect().catch(() => {}) and go on).
StopWaitsOn(i) == IF stopPc = "await" /\ stopCur.inst = i THEN 1 ELSE 0

DisconnectSettles(i) ==
    /\ lc[i].closing > StopWaitsOn(i)
    /\ lc' = [lc EXCEPT ![i] = DisconnectFinish(@, socket)]

\* ------------------------------------------------------ the specification

Init ==
    /\ lc = <<>>
    /\ clients = <<>>
    /\ socket = "null"
    /\ calls = {}
    /\ stopPc = "idle"
    /\ stopCur = NoEntry
    /\ outbox = <<>>
    /\ expected = {}
    /\ removed = {}
    /\ last = NoEvent
    /\ leaked = 0

\* A step of one LocalClient: it changes that client alone.
ClientOnly(ready) ==
    /\ ready
    /\ outbox' = <<>>
    /\ last' = NoEvent
    /\ UNCHANGED <<clients, socket, calls, stopPc, stopCur, expected, removed, leaked>>

\* What one LocalClient does between the calls made on it; cap bounds
\* _reconnectAttempt, ready is what the step waits for.
ClientStep(i, cap, ready) ==
    \/ TransportOpened(i) /\ ClientOnly(ready)
    \/ TransportFailed(i) /\ ClientOnly(ready)
    \/ ToolsListed(i) /\ ClientOnly(ready)
    \/ ListFailed(i) /\ ClientOnly(ready)
    \/ TransportEvent(i) /\ ClientOnly(ready)
    \/ StaleTransportEvent(i) /\ ClientOnly(ready)
    \/ ReconnectTimerFires(i, cap) /\ ClientOnly(ready)
    \/ DisconnectSettles(i) /\ ClientOnly(ready)

\* The steps of _connectHttp, taken for an http-stream descriptor.
HttpStep(i) ==
    \/ PostOpened(i) /\ ClientOnly(TRUE)
    \/ PostFailed(i) /\ ClientOnly(TRUE)
    \/ PostClosed(i) /\ ClientOnly(TRUE)
    \/ SseOpened(i) /\ ClientOnly(TRUE)
    \/ SseFailed(i) /\ ClientOnly(TRUE)
    \/ SseClosed(i) /\ ClientOnly(TRUE)

Garbage(i) == GarbageIn(World, stopCur, i)

Shift(k, i) == IF k > i THEN k - 1 ELSE k

\* The object leaves the heap; the ones constructed after it move up.
Collect(i) ==
    /\ Garbage(i)
    /\ \A j \in 1..(i - 1) : ~Garbage(j)
    /\ lc' = [k \in 1..(Len(lc) - 1) |-> IF k < i THEN lc[k] ELSE lc[k + 1]]
    /\ clients' = [k \in 1..Len(clients) |->
                     [id |-> clients[k].id, inst |-> Shift(clients[k].inst, i)]]
    /\ stopCur' = [stopCur EXCEPT !.inst = Shift(@, i)]
    /\ outbox' = <<>>
    /\ last' = NoEvent
    /\ UNCHANGED <<socket, calls, stopPc, expected, removed, leaked>>

\* What became garbage is reclaimed, and a request answered is forgotten,
\* before anything else happens: neither takes part in what follows.
NoGarbage ==
    /\ \A i \in Inst : ~Garbage(i)
    /\ \A c \in calls : ~Answered(c)

\* History: an id stays in removed until an event tracks it again.
StillRemoved == removed' = removed \ TrackedIds'

\* The control plane delivers an event about one of the configured ids.
EndpointsEvent == \E endpoints \in Lists(Configs(Configured)) : OnEndpoints(endpoints)
AddEvent == \E endpoint \in Configs(Configured) : OnEndpointAdd(endpoint)
RemoveEvent ==
    \E id \in Configured : OnEndpointRemove(id) /\ removed' = removed \cup {id}
ToggleEvent == \E id \in Configured, isEnabled \in BOOLEAN : OnEndpointToggle(id, isEnabled)
UpdateEvent == \E endpoint \in Configs(Configured) : OnEndpointUpdate(endpoint)
RefreshEvent == \E id \in Configured : OnEndpointRefresh(id)

\* The agent: the control channel's events, the tool calls, the steps of
\* the connections and stop().
Next ==
    \/ \E i \in Inst : Collect(i)
    \/ \E c \in calls : Forget(c)
    \/ NoGarbage /\ Start
    \/ NoGarbage /\ EndpointsEvent /\ StillRemoved /\ UNCHANGED <<expected, last, leaked>>
    \/ NoGarbage /\ AddEvent /\ StillRemoved /\ UNCHANGED <<expected, last, leaked>>
    \/ NoGarbage /\ RemoveEvent /\ UNCHANGED <<expected, last, leaked>>
    \/ NoGarbage /\ ToggleEvent /\ StillRemoved /\ UNCHANGED <<expected, last, leaked>>
    \/ NoGarbage /\ UpdateEvent /\ StillRemoved /\ UNCHANGED <<expected, last, leaked>>
    \/ NoGarbage /\ RefreshEvent /\ StillRemoved /\ UNCHANGED <<expected, last, leaked>>
    \/ NoGarbage /\ OnToolCall
    \/ NoGarbage /\ CallSettles
    \/ NoGarbage /\ Stop
    \/ NoGarbage /\ StopResumes
    \/ \E i \in Inst : ClientStep(i, MaxRetry, NoGarbage)

Spec == Init /\ [][Next]_vars

\* ------------------------------------- one LocalClient used on its own
\* index.ts exports LocalClient: connect() and disconnect() called directly.

InitClient ==
    /\ \E s \in Shapes : lc = <<Traced(NewClient(Descriptor("a", s, TRUE)))>>
    /\ clients = <<>>
    /\ socket = "live"
    /\ calls = {}
    /\ stopPc = "idle"
    /\ stopCur = NoEntry
    /\ outbox = <<>>
    /\ expected = {}
    /\ removed = {}
    /\ last = NoEvent
    /\ leaked = 0

\* connect() is called.
CallConnect ==
    /\ lc[1].reconnectAttempt < MaxAttempt
    /\ lc[1].reconnectTimer => lc[1].orphanTimers < MaxOrphanTimers
    /\ lc' = [lc EXCEPT ![1] = ConnectStart(@, socket)]
    /\ last' = NoEvent
    /\ UNCHANGED <<clients, socket, calls, stopPc, stopCur, outbox, expected, removed, leaked>>

\* disconnect() is called.
CallDisconnect ==
    /\ lc[1].discCb + lc[1].closing < MaxDisconnectCalls
    /\ lc' = [lc EXCEPT ![1] = DisconnectStart(@, socket)]
    /\ last' = NoEvent
    /\ UNCHANGED <<clients, socket, calls, stopPc, stopCur, outbox, expected, removed, leaked>>

OrphanStep ==
    /\ OrphanTimerFires(1)
    /\ last' = NoEvent
    /\ UNCHANGED <<clients, socket, calls, stopPc, stopCur, outbox, expected, removed, leaked>>

PartnerStep == PartnerFires(1) /\ ClientOnly(TRUE)

\* callTool() is called: last.sent holds the request it issues downstream,
\* nothing when it throws.
CallCallTool ==
    /\ Handled("callTool", {}, {},
               IF CallToolForwards(lc[1]) THEN << <<"a", "callTool">> >> ELSE <<>>)
    /\ UNCHANGED <<lc, clients, socket, calls, stopPc, stopCur, outbox, expected,
                   removed, leaked>>

NextClient ==
    \/ CallConnect
    \/ CallDisconnect
    \/ ClientStep(1, MaxAttempt, TRUE)
    \/ HttpStep(1)
    \/ OrphanStep
    \/ PartnerStep
    \/ CallCallTool

SpecClient == InitClient /\ [][NextClient]_vars

\* The same client with the event loop's guarantee for setTimeout: a timer
\* that stays pending fires.
TimerFires ==
    \/ ReconnectTimerFires(1, MaxAttempt) /\ ClientOnly(TRUE)
    \/ OrphanStep

SpecClientLive == InitClient /\ [][NextClient]_vars /\ WF_vars(TimerFires)

\* ------------------------------- the map against the events delivered
\* The events about every id, with the history of what they said: expected
\* holds the ids present and enabled per the latest full replace and the
\* add and update events since, less those removed or disabled since.

Said(endpoint) ==
    IF endpoint.isEnabled THEN expected \cup {endpoint.id}
    ELSE expected \ {endpoint.id}

\* The ids of a full replace that are tracked when it arrives.
Kept(endpoints) ==
    { endpoints[k].id : k \in { j \in 1..Len(endpoints) : Has(clients, endpoints[j].id) } }

\* The ids of a full replace that are tracked and whose incoming descriptor
\* is not the one the connection holds.
Revised(endpoints) ==
    { endpoints[k].id : k \in { j \in 1..Len(endpoints) :
          /\ Has(clients, endpoints[j].id)
          /\ lc[Get(clients, endpoints[j].id)].cfg # endpoints[j] } }

\* _toggleEndpoint: this._tunnel.sendStatusUpdate(endpointId, ...)
ToggleSends(id, isEnabled) ==
    IF ~isEnabled
    THEN IF Has(clients, id) THEN << <<id, "disconnected">> >> ELSE <<>>
    ELSE IF ~Has(clients, id) THEN << <<id, "connecting">> >> ELSE <<>>

Expect(ids) == expected' = ids /\ UNCHANGED <<removed, leaked>>

NextMap ==
    \/ \E i \in Inst : Collect(i)
    \/ NoGarbage /\ Start
    \/ \E endpoints \in EndpointLists :
          /\ NoGarbage
          /\ OnEndpoints(endpoints)
          /\ Expect(EnabledIds(endpoints))
          /\ Handled("endpoints", Kept(endpoints), Revised(endpoints), <<>>)
    \/ \E endpoint \in EndpointConfig :
          /\ NoGarbage
          /\ OnEndpointAdd(endpoint)
          /\ Expect(Said(endpoint))
          /\ last' = NoEvent
    \/ \E id \in EndpointIds :
          /\ NoGarbage
          /\ OnEndpointRemove(id)
          /\ Expect(expected \ {id})
          /\ last' = NoEvent
    \/ \E id \in EndpointIds, isEnabled \in BOOLEAN :
          /\ NoGarbage
          /\ OnEndpointToggle(id, isEnabled)
          /\ Expect(IF isEnabled THEN expected ELSE expected \ {id})
          /\ Handled("toggle", {}, {}, ToggleSends(id, isEnabled))
    \/ \E endpoint \in EndpointConfig :
          /\ NoGarbage
          /\ OnEndpointUpdate(endpoint)
          /\ Expect(Said(endpoint))
          /\ last' = NoEvent
    \/ \E id \in EndpointIds :
          /\ NoGarbage
          /\ OnEndpointRefresh(id)
          /\ Expect(expected)
          /\ Handled("refresh", {id} \cap TrackedIds, {}, <<>>)
    \/ \E i \in Inst : ClientStep(i, MaxRetry, NoGarbage)

SpecMap == Init /\ [][NextMap]_vars

\* ------------------------------------------- events while stop() waits
\* stop() awaits one disconnect() after the other with the control channel
\* still connected: the server's events are handled in between.

AddWhileStopping ==
    \E endpoint \in Configs(Configured) :
        /\ Delivers
        /\ BecomesBeside(AddEndpoint(World, endpoint, socket))
        /\ outbox' = <<>>
        /\ UNCHANGED <<socket, calls, stopPc, stopCur, expected, removed, last, leaked>>

RefreshWhileStopping ==
    \E id \in Configured :
        /\ Delivers
        /\ BecomesBeside(RefreshEndpoint(World, id, socket))
        /\ outbox' = <<>>
        /\ UNCHANGED <<socket, calls, stopPc, stopCur, expected, removed, last, leaked>>

NextStop ==
    \/ \E i \in Inst : Collect(i)
    \/ NoGarbage /\ Start
    \/ NoGarbage /\ AddEvent /\ UNCHANGED <<expected, removed, last, leaked>>
    \/ NoGarbage /\ AddWhileStopping
    \/ NoGarbage /\ RefreshWhileStopping
    \/ NoGarbage /\ Stop
    \/ NoGarbage /\ StopResumes
    \/ \E i \in Inst : ClientStep(i, MaxRetry, NoGarbage)

SpecStop == Init /\ [][NextStop]_vars

\* ------------------------------------- two endpoints, one left alone
\* The agent after `agent:endpoints` with enabled descriptors for "a" and
\* "b".  From there on the events and the tool calls name "a", one tool
\* call at a time; the connection of "b" takes its own steps.

Bystander == "b"

InitPair ==
    /\ lc = [k \in 1..2 |->
               ConnectStart(NewClient(CHOOSE e \in Configs({<<"a", "b">>[k]}) : e.isEnabled),
                            "live")]
    /\ clients = <<[id |-> "a", inst |-> 1], [id |-> "b", inst |-> 2]>>
    /\ socket = "live"
    /\ calls = {}
    /\ stopPc = "idle"
    /\ stopCur = NoEntry
    /\ outbox = <<>>
    /\ expected = {}
    /\ removed = {}
    /\ last = NoEvent
    /\ leaked = 0

\* The handler's result becomes the state, within the bound on the objects
\* alive beside the bystander's.
BecomesApart(w) ==
    /\ Cardinality({ i \in 1..Len(w.lc) :
                        ~GarbageIn(w, stopCur, i) /\ w.lc[i].cfg.id # Bystander }) <= MaxInst
    /\ clients' = w.clients
    /\ lc' = w.lc

\* An event about one of the configured ids is handled.
PairEvent(w) ==
    /\ Delivers
    /\ BecomesApart(w)
    /\ outbox' = <<>>
    /\ UNCHANGED <<socket, calls, stopPc, stopCur, expected, removed, last, leaked>>

NextPair ==
    \/ \E i \in Inst : Collect(i)
    \/ \E c \in calls : Forget(c)
    \/ \E endpoint \in Configs(Configured) :
          NoGarbage /\ PairEvent(AddEndpoint(World, endpoint, socket))
    \/ \E id \in Configured :
          NoGarbage /\ PairEvent(RemoveEndpoint(World, id, socket))
    \/ \E id \in Configured, isEnabled \in BOOLEAN :
          NoGarbage /\ PairEvent(ToggleEndpoint(World, id, isEnabled, socket))
    \/ \E endpoint \in Configs(Configured) :
          NoGarbage /\ PairEvent(UpdateEndpoint(World, endpoint, socket))
    \/ \E id \in Configured :
          NoGarbage /\ PairEvent(RefreshEndpoint(World, id, socket))
    \/ /\ NoGarbage
       /\ calls = {}
       /\ OnToolCall
       /\ \A c \in calls' : c.endpointId \in Configured
    \/ NoGarbage /\ CallSettles
    \/ \E i \in Inst : ClientStep(i, MaxRetry, NoGarbage)

SpecPair == InitPair /\ [][NextPair]_vars

\* --------------------------------- the control channel used on its own
\* index.ts exports AgentTunnel: connect() and disconnect() in any order,
\* its callbacks those of McpCentralAgent.

NextTunnel ==
    \/ \E i \in Inst : Collect(i)
    \/ NoGarbage /\ TunnelConnect
    \/ NoGarbage /\ TunnelDisconnect
    \/ NoGarbage /\ AddEvent /\ UNCHANGED <<expected, removed, last, leaked>>
    \/ NoGarbage /\ RemoveEvent /\ UNCHANGED <<expected, last, leaked>>
    \/ \E i \in Inst : ClientStep(i, MaxRetry, NoGarbage)

SpecTunnel == Init /\ [][NextTunnel]_vars

\* ------------------------------------ endpoint_toggle on one connection
\* The agent after `agent:endpoint_add` for "a", the client it made traced;
\* endpoint_toggle is the one event delivered from there on.

InitToggle ==
    /\ lc = <<ConnectStart(Traced(NewClient(
                  CHOOSE e \in Configs({"a"}) : e.isEnabled)), "live")>>
    /\ clients = <<[id |-> "a", inst |-> 1]>>
    /\ socket = "live"
    /\ calls = {}
    /\ stopPc = "idle"
    /\ stopCur = NoEntry
    /\ outbox = <<>>
    /\ expected = {}
    /\ removed = {}
    /\ last = NoEvent
    /\ leaked = 0

NextToggle ==
    \/ \E i \in Inst : Collect(i)
    \/ \E c \in calls : Forget(c)
    \/ NoGarbage /\ ToggleEvent /\ UNCHANGED <<expected, removed, last, leaked>>
    \/ NoGarbage /\ OnToolCall
    \/ NoGarbage /\ CallSettles
    \/ \E i \in Inst : ClientStep(i, MaxRetry, NoGarbage)

SpecToggle == InitToggle /\ [][NextToggle]_vars

\* ------------------------------------------- disable, enable, refresh
\* One tracked endpoint, its connection starting; the server sends
\* endpoint_toggle and endpoint_refresh for it, and last holds which one
\* was handled and what _toggleEndpoint handed to the tunnel.

ToggleRecorded ==
    \E id \in Configured, isEnabled \in BOOLEAN :
        /\ OnEndpointToggle(id, isEnabled)
        /\ Handled(IF isEnabled THEN "enable" ELSE "disable", {id}, {},
                   ToggleSends(id, isEnabled))

RefreshRecorded ==
    \E id \in Configured :
        /\ OnEndpointRefresh(id)
        /\ Handled("refresh", {id}, {}, <<>>)

NextEnable ==
    \/ \E i \in Inst : Collect(i)
    \/ NoGarbage /\ ToggleRecorded /\ UNCHANGED <<expected, removed, leaked>>
    \/ NoGarbage /\ RefreshRecorded /\ UNCHANGED <<expected, removed, leaked>>
    \/ \E i \in Inst : ClientStep(i, MaxRetry, NoGarbage)

SpecEnable == InitToggle /\ [][NextEnable]_vars

\* ------------------------------------- a connection and the one it replaced
\* One tracked endpoint, its connection starting; the server sends
\* endpoint_add, endpoint_update and endpoint_refresh for it.  The bound is
\* on the tracked objects and, apart, on the replaced ones that still have
\* something pending.

Replaces(w) ==
    /\ Cardinality({ i \in 1..Len(w.lc) :
                        ~GarbageIn(w, stopCur, i) /\ ~w.lc[i].destroyed }) <= MaxInst
    /\ Cardinality({ i \in 1..Len(w.lc) :
                        ~GarbageIn(w, stopCur, i) /\ w.lc[i].destroyed }) <= MaxInst
    /\ clients' = w.clients
    /\ lc' = w.lc

ReplaceEvent(w) ==
    /\ Delivers
    /\ Replaces(w)
    /\ outbox' = <<>>
    /\ last' = NoEvent
    /\ UNCHANGED <<socket, calls, stopPc, stopCur, expected, removed, leaked>>

NextReplace ==
    \/ \E i \in Inst : Collect(i)
    \/ \E endpoint \in Configs(Configured) :
          NoGarbage /\ ReplaceEvent(AddEndpoint(World, endpoint, socket))
    \/ \E endpoint \in Configs(Configured) :
          NoGarbage /\ ReplaceEvent(UpdateEndpoint(World, endpoint, socket))
    \/ \E id \in Configured :
          NoGarbage /\ ReplaceEvent(RefreshEndpoint(World, id, socket))
    \/ \E i \in Inst : ClientStep(i, MaxRetry, NoGarbage)

SpecReplace == InitToggle /\ [][NextReplace]_vars

\* ------------------------------------------------------------ the claims

\* C1: after each control-channel event is handled, the ids in the tracked
\* map are exactly the ids present and enabled per the latest full replace
\* and the later add events, less those removed or disabled since; no id
\* whose latest descriptor is disabled is tracked.  (Under SpecMap.)
C1_TrackedIsExpected == TrackedIds = expected

\* C2: once disconnect() has been called on a connection and has set it
\* disconnected, its status never again becomes connecting, connected or
\* error, also when a connect() in flight at that moment completes or fails
\* later.  (Under SpecClient.)
C2_DestroyedStaysDisconnected ==
    [][(lc[1].destroyed /\ lc[1].status = "disconnected")
          => lc'[1].status = "disconnected"]_vars

\* C3: from the moment disconnect() is invoked on a connection no reconnect
\* timer is pending for it (and so none fires a connect attempt).
\* (Under SpecClient.)
C3_NoTimerOnceDestroyed ==
    lc[1].destroyed => (~lc[1].reconnectTimer /\ lc[1].orphanTimers = 0)

\* C4: over a run of consecutive failures of one connection with no arrival
\* in connected in between, each reconnect delay it schedules is at least
\* the one it scheduled before.  (Under SpecClient.)
C4_DelaysNonDecreasing ==
    [][(lc'[1].reconnectAttempt = lc[1].reconnectAttempt + 1 /\ lc[1].lastDelay # 0)
          => lc'[1].lastDelay >= lc[1].lastDelay]_vars

\* C5: every reconnect delay a connection schedules is
\* schedule[min(reconnectAttempt, 4)] of [1s, 2s, 5s, 10s, 30s], and the
\* scheduling adds one to reconnectAttempt; so no delay exceeds 30s.
\* (Under SpecClient.)
C5_DelayFollowsSchedule ==
    [][(\/ lc'[1].reconnectAttempt > lc[1].reconnectAttempt
        \/ lc'[1].reconnectTimer /\ ~lc[1].reconnectTimer
        \/ lc'[1].orphanTimers > lc[1].orphanTimers)
          => /\ lc'[1].reconnectAttempt = lc[1].reconnectAttempt + 1
             /\ lc'[1].lastDelay =
                   <<1000, 2000, 5000, 10000, 30000>>[Min(lc[1].reconnectAttempt, 4) + 1]
             /\ lc'[1].lastDelay <= 30000]_vars

\* C5 witness: a delay was scheduled past the end of the schedule.
C5_ScheduledPastTheEnd ==
    lc[1].reconnectAttempt > 5 /\ lc[1].lastDelay = 30000

\* C6: a tool_call for an id not in the map is answered with the error "No
\* local client" and no downstream call; for a tracked id whose status is
\* not connected, with an error naming that status and no downstream call;
\* for a connected one the downstream call is made and its result is sent
\* as a result, its failure message as an error, under the request's callId.
\* Sent is: handed to AgentTunnel.sendToolResult / sendToolError, which emit
\* while the tunnel holds a socket.
C6_ToolCallRouting ==
    [][\A c \in calls' :
         LET ep == c.endpointId
             tracked == Has(clients, ep)
             st == IF tracked THEN lc[Get(clients, ep)].status ELSE "none"
             Sends(m) == outbox' = << [callId |-> c.callId, outcome |-> m,
                                       emitted |-> socket' = "live"] >>
         IN  /\ (\A d \in calls : d.callId # c.callId) =>
                  /\ ~tracked =>
                       /\ Sends(<<"error", "No local client for endpoint", ep>>)
                       /\ ~c.inflight
                  /\ (tracked /\ st # "connected") =>
                       /\ Sends(<<"error", "Endpoint is not connected (status)", ep, st>>)
                       /\ ~c.inflight
                  /\ (tracked /\ st = "connected") =>
                       /\ c.inflight
                       /\ outbox' = <<>>
             /\ (\E d \in calls : d.callId = c.callId /\ d.inflight /\ ~c.inflight) =>
                  \/ Sends(<<"result", "r1">>)
                  \/ Sends(<<"error", "boom">>)
                  \/ Sends(<<"error", "x">>)]_vars

\* C6 witness: a downstream call failed and its message went out as the
\* error of the request.
C6_DownstreamFailureSent ==
    /\ \E c \in calls : Answered(c) /\ c.outcomes = 1
    /\ outbox = << [callId |-> 1, outcome |-> <<"error", "boom">>, emitted |-> TRUE] >>

\* C7: for each tool_call request at most one outcome is ever sent under
\* its callId, whatever events, connection drops and shutdown happen while
\* the call is in flight.
C7_AtMostOneOutcome ==
    /\ \A c \in calls : c.outcomes <= 1 /\ (c.inflight => c.outcomes = 0)
    /\ \A c, d \in calls : c.callId = d.callId => c = d
    /\ Len(outbox) <= 1

\* C7 witness: a call in flight through the shutdown was answered after
\* stop() had closed the tunnel.
C7_SettledAfterStop ==
    \E c \in calls : Answered(c) /\ c.outcomes = 1 /\ socket = "null"

\* C8: endpoint_toggle(isEnabled = false) for a tracked, connected endpoint
\* removes its entry from the map and sends exactly one statusUpdate
\* "disconnected" for it, the handler's own report and the status callback
\* of the connection it dropped counted together.  (Under SpecToggle, where
\* the socket stays live and nothing else disconnects the connection.)
C8_OneDisconnectedReport ==
    \A i \in Inst :
       (lc[i].traced /\ lc[i].toggledAt = "connected")
          => /\ ~Has(clients, lc[i].cfg.id)
             /\ lc[i].discSent = 1

\* C9: a second disconnect() on the same connection causes no
\* onStatusChanged invocation beyond those of the first: "disconnected" is
\* reported once.  (Under SpecClient.)
C9_DisconnectedReportedOnce == lc[1].discCb <= 1

\* C10: once endpoint_remove for a is handled a is not in the map; only an
\* endpoints, endpoint_add or endpoint_update event tracks it again; and
\* until then a tool_call for a is answered with the error "No local
\* client", makes no downstream call and so never gets a result.
C10_RemovedIsUntracked ==
    [][/\ \A a \in removed' : a \notin TrackedIds'
       /\ \A a \in removed \ removed' :
             EndpointsEvent \/ AddEvent \/ UpdateEvent
       /\ \A c \in calls' :
             ((\A d \in calls : d.callId # c.callId) /\ c.endpointId \in removed)
                => /\ ~c.inflight
                   /\ outbox' = << [callId |-> c.callId,
                                    outcome |-> <<"error", "No local client for endpoint",
                                                  c.endpointId>>,
                                    emitted |-> TRUE] >>]_vars

\* C10 witness: endpoint_remove dropped the connection of a, which is still
\* closing, and a tool_call for a has been answered with "No local client".
C10_CallAfterRemove ==
    /\ "a" \in removed
    /\ \E i \in Inst : lc[i].cfg.id = "a" /\ lc[i].destroyed /\ lc[i].closing > 0
    /\ \E c \in calls : Answered(c) /\ c.endpointId = "a" /\ c.outcomes = 1
    /\ outbox = << [callId |-> 1,
                    outcome |-> <<"error", "No local client for endpoint", "a">>,
                    emitted |-> TRUE] >>

\* C11: for an http-stream descriptor connect() attempts the streaming POST
\* first and the server-sent-events GET only after the POST attempt failed
\* and its close settled; when discovery succeeds on the fallback the
\* connection is connected on the GET transport with one onToolsChanged
\* for that connect, carrying the tools discovered; when the GET attempt
\* fails too the connection is in error with the GET failure's message,
\* and nothing else ends the two attempts in error.  (Under SpecClient.)
C11_HttpFallback ==
    [][LET r == lc[1]
           n == lc'[1]
       IN  /\ (r.cfg.transport = "streamable-http" /\ r.cfg.url # "null"
                  /\ r.pc = "idle" /\ n.pc # "idle") => n.pc = "post"
           /\ (n.pc = "sse" /\ r.pc # "sse") => r.pc = "postClose"
           /\ (n.pc = "postClose" /\ r.pc # "postClose") => r.pc = "post"
           /\ (r.pc = "sse" /\ n.pc = "list") => n.via = "sse"
           /\ (r.pc = "list" /\ r.via = "sse" /\ n.status = "connected")
                 => /\ n.via = "sse"
                    /\ n.toolsCb = 1
                    /\ n.announced = n.tools
           /\ (r.pc \in {"post", "postClose", "sse", "sseClose"} /\ n.pc = "idle")
                 => /\ r.pc = "sseClose"
                    /\ n.status = "error"
                    /\ n.lastError = "GET failed"]_vars

\* C11 witness: connected over the fallback transport, its tools announced.
C11_ConnectedOverSse ==
    /\ lc[1].status = "connected"
    /\ lc[1].via = "sse"
    /\ lc[1].toolsCb = 1
    /\ lc[1].announced = <<"t1">>

\* C12: when one fault fires both observers of a transport, the second to
\* fire runs no reaction: no status change, no callback, no timer, no
\* increment of reconnectAttempt.  (Under SpecClient.)
C12_PartnerDoesNotReact ==
    [][(lc[1].partner /\ ~lc'[1].partner)
          => lc' = [lc EXCEPT ![1].partner = FALSE]]_vars

\* C13: the tools list of a connection is empty whenever its status is not
\* connected, also after disconnect() on a connection that was connected
\* with tools.  (Under SpecToggle.)
C13_NoToolsUnlessConnected ==
    \A i \in Inst : lc[i].status # "connected" => lc[i].tools = <<>>

\* C14: when a connect attempt opens a new transport, the transport opened
\* before it has been closed, also when its tool discovery had failed while
\* it stayed open.  (Under SpecClient.)
C14_EarlierTransportClosed ==
    [][(lc'[1].pc = "list" /\ lc[1].pc # "list") => ~lc[1].untended]_vars

\* C18: the reaction to a transport error or close observed on a connected
\* connection empties the tool list, sets status error with a message,
\* invokes onToolsChanged with the empty list, and leaves a reconnect timer
\* pending.  (Under SpecClient.)
C18_ReactionAnnouncesNoTools ==
    [][(lc[1].status = "connected" /\ lc'[1].status = "error")
          => /\ lc'[1].tools = <<>>
             /\ lc'[1].lastError = "transport error or close"
             /\ lc'[1].reconnectTimer
             /\ lc'[1].toolsCb = lc[1].toolsCb + 1
             /\ lc'[1].announced = <<>>]_vars

C15_OneLiveSocket ==
    (IF socket = "live" THEN 1 ELSE 0) + leaked <= 1

\* C16: when stop() has resolved the map is empty, the control channel
\* holds no socket, and disconnect() has been called, and has completed,
\* on every connection that was tracked when stop() started or was added
\* by an event while it waited.  (Under SpecStop.)
C16_StopLeavesNothing ==
    stopPc = "done"
       => /\ clients = <<>>
          /\ socket = "null"
          /\ \A i \in Inst : lc[i].destroyed

C26_SupersededObserverInert ==
    [][(lc[1].partner /\ ~lc'[1].partner /\ lc[1].obs /\ Reacts(lc[1]))
          => /\ lc'[1].status = "connected"
             /\ lc'[1].tools = lc[1].tools
             /\ lc'[1].reconnectAttempt = lc[1].reconnectAttempt
             /\ lc'[1].reconnectTimer = lc[1].reconnectTimer
             /\ lc'[1].orphanTimers = lc[1].orphanTimers]_vars

\* C22: callTool issues a downstream call only while the connection has a
\* transport established: it is connected, or its transport has opened
\* and tool discovery is running on it.  (Under SpecClient.)
C22_CallToolOnlyWhenEstablished ==
    (last.ev = "callTool" /\ last.sent # <<>>)
       => lc[1].status = "connected" \/ lc[1].pc = "list"

\* C25: a connection on which disconnect() was called, with no connect()
\* still in flight and no close still pending, holds no client: whatever
\* it opened has been closed.  (Under Spec.)
C25_NothingOpenAfterTeardown ==
    \A i \in Inst :
       (lc[i].destroyed /\ lc[i].pc = "idle" /\ lc[i].closing = 0)
          => lc[i].client = "null"

\* The connection is in error and was not torn down, at reconnect attempt n.
InError(n) ==
    /\ lc[1].status = "error"
    /\ ~lc[1].destroyed
    /\ lc[1].reconnectAttempt = n

\* Something will try again: a reconnect timer is pending or a connect()
\* is in flight.
Tended(r) == r.reconnectTimer \/ r.orphanTimers > 0 \/ r.connecting

C24_ErrorIsTended ==
    (lc[1].status = "error" /\ ~lc[1].destroyed) => Tended(lc[1])

\* C24: a connection that is in error and not destroyed has a reconnect
\* timer pending or a connect() in flight, and with timers that fire it
\* does not stay where it is: it leaves error, is torn down, or has made
\* another attempt (one that failed at once moves on to the next
\* attempt).  (Under SpecClientLive.)
C24_NeverStuckInError ==
    /\ []C24_ErrorIsTended
    /\ \A n \in 0..MaxAttempt : InError(n) ~> ~InError(n)

\* Witness of C24: in error after a second failed attempt, the timer of the
\* third pending; the second attempt was started by the first one's timer.
C24_WaitingToRetry ==
    /\ InError(2)
    /\ lc[1].reconnectTimer
    /\ lc[1].orphanTimers = 0
    /\ ~lc[1].connecting

\* C21: toggle(true) for an id that is not tracked hands the tunnel exactly
\* one statusUpdate "connecting" and creates no map entry, and the
\* endpoint_refresh for that id that follows leaves a connection tracked
\* under it that is connecting.  (Under SpecEnable, where an id is untracked
\* only after a toggle(false) dropped it.)
C21_ReenableThenRefresh ==
    [][/\ \A id \in Configured :
             (last'.ev = "enable" /\ last'.ids = {id} /\ ~Has(clients, id))
                => /\ last'.sent = << <<id, "connecting">> >>
                   /\ clients' = clients
                   /\ lc' = lc
       /\ \A id \in Configured :
             (/\ last.ev = "enable" /\ last.ids = {id}
              /\ last.sent = << <<id, "connecting">> >>
              /\ last'.ev = "refresh" /\ last'.ids = {id})
                => /\ Has(clients', id)
                   /\ ~lc'[Get(clients', id)].destroyed
                   /\ lc'[Get(clients', id)].status = "connecting"]_vars

\* The object was replaced: it is destroyed and not in the map, and the map
\* tracks another object under its id (whose connect() has reported
\* "connecting" in the handler that created it).
Replaced(i) ==
    /\ lc[i].destroyed
    /\ \A k \in 1..Len(clients) : clients[k].inst # i
    /\ Has(clients, lc[i].cfg.id)

\* C23: a connection that was replaced under its id reports nothing more:
\* once the new connection is tracked, no step of the replaced one calls
\* _setStatus (a statusUpdate for the id) or announces tools.  (Under
\* SpecReplace; the socket is connected throughout.)
C23_ReplacedIsSilent ==
    [][\A i \in Inst :
          (Replaced(i) /\ Len(lc') = Len(lc) /\ socket = "live")
             => /\ lc'[i].status = lc[i].status
                /\ lc'[i].tools = lc[i].tools]_vars

=============================================================================
